---- MODULE Spec2Model ----
(***************************************************************************)
(* ReskPoints: the incident manager (ticket lifecycle and escalation       *)
(* scan, services/incident/manager.py) and the metrics collector           *)
(* (buffered ingestion and flush, services/metrics/collector.py).          *)
(*                                                                         *)
(* Time is the UTC clock in seconds.  Python's None is the string "None"   *)
(* for optional strings and NoneTime for optional datetimes.  A coroutine  *)
(* runs atomically between two awaits that really suspend (asyncio.sleep,  *)
(* database I/O, awaiting a task); an await of a coroutine that never      *)
(* suspends (the manager's own helpers) does not yield to the event loop.  *)
(***************************************************************************)
EXTENDS Integers, Sequences, FiniteSets, TLC

(***************************************************************************)
(* Bounds of the model.                                                    *)
(***************************************************************************)
\* Tickets held by the store.
MaxTickets == 2
\* Cap on the status changes recorded in the workflow logs (the logs are
\* unbounded in the program).
MaxEvents == 2
\* Metrics, and errors, submitted to the collector.
MaxMetrics == 2
MaxErrors == 2
\* Flushes that end in a storage error.
MaxFailures == 1
\* MetricsCollector.max_batch_size, scaled down from the program's 1000 so that
\* a buffer can fill up.
max_batch_size == 2
\* Samples submitted to the detector: in a long series (past the history's
\* capacity), and in a short series of freely chosen values.
MaxSamples == 1002
MaxShortSamples == 11
\* Stable samples that may precede a spike.
MaxStableSamples == 52

(***************************************************************************)
(* Enumerations and constants of the program.                              *)
(***************************************************************************)
TicketStatus == {"open", "in_progress", "pending", "resolved", "closed", "reopened"}

TicketPriority == {"critical", "high", "medium", "low"}

ErrorSeverity == {"critical", "high", "medium", "low", "info"}

ErrorCategory ==
    {"authentication", "rate_limit", "timeout", "invalid_input", "model_error",
     "network_error", "quota_exceeded", "service_unavailable", "unknown"}

\* Optional[datetime] = None
NoneTime == -1

\* The escalation rules' age limits, in seconds.
CriticalNoResponseSeconds == 900
HighOverdueSeconds == 3600
MediumOverdueSeconds == 14400

\* escalation_rules is a dict: it is walked in insertion order.
EscalationRuleNames == <<"critical_no_response", "high_overdue", "medium_overdue">>

(***************************************************************************)
(* Inputs of the model: small sets the operations' arguments are drawn     *)
(* from.                                                                   *)
(***************************************************************************)
\* Callers of update_ticket_status ("system" is the escalation scan's actor).
Users == {"alice"}
\* notes: Optional[str]
Notes == {"None", "fixed"}
\* Severities of the tickets that enter the store.
StoredSeverities == {"critical", "low"}
\* Priorities of the tickets of the escalation specification.
EscalationPriorities == {"critical", "high", "low"}
\* Statuses of the tickets of the scan specification.
ScannedStatuses == {"open", "in_progress", "closed"}
\* Ticket ids a caller may name; the last one is never stored.
TicketIds == 1..(MaxTickets + 1)
\* The instants the clock is observed at: each age limit and one second past it.
ClockPoints ==
    {0, CriticalNoResponseSeconds, CriticalNoResponseSeconds + 1,
     HighOverdueSeconds, HighOverdueSeconds + 1,
     MediumOverdueSeconds, MediumOverdueSeconds + 1}

VARIABLES
    now,               \* datetime.utcnow(), seconds
    tickets,           \* IncidentManager.tickets: the dict's values in insertion order
    ticket_workflows,  \* IncidentManager.ticket_workflows: id -> events
    result,            \* outcome of the last call of the manager
    escalation_task,   \* position of escalation_check_loop
    batch_buffer,      \* MetricsCollector.batch_buffer
    error_buffer,      \* MetricsCollector.error_buffer
    ai_metrics,        \* rows the storage sink received for table ai_metrics
    ai_errors,         \* rows the storage sink received for table ai_errors
    flush_task,        \* position of the _periodic_flush task ("None": not created)
    flush,             \* per caller, the _flush_metrics/_flush_errors call in progress
    stop_call,         \* position of the stop() call
    stop_pending,      \* what the buffers held when stop() was called
    submitted,         \* how many metrics and errors were submitted so far, how
                       \* many collect_metric calls returned True, False, and
                       \* the series of each submitted metric, and how many
                       \* metrics failed validation at construction
    metric_history,    \* AnomalyDetector.metric_history as collect_metric fills
                       \* it: series key -> the values of the metrics, here their
                       \* submission numbers
    flush_failures,    \* how many flushes logged a storage error so far
    passed,            \* the metrics and errors handed to executemany so far
    cycle_items,       \* what the buffers held when the running periodic cycle began
    anomaly_detector,  \* AnomalyDetector: one series' metric_history and forest, the
                       \* number of detect_anomaly calls and the last call's result
    failed_cycle       \* "none", "current" (this periodic cycle logged an error),
                       \* "followed" (a later cycle has started since)

incidentVars == <<now, tickets, ticket_workflows, result>>

collectorVars ==
    <<batch_buffer, error_buffer, ai_metrics, ai_errors, flush_task, flush,
      stop_call, stop_pending, submitted, flush_failures, passed, failed_cycle, cycle_items,
      metric_history>>

vars == <<incidentVars, escalation_task, collectorVars, anomaly_detector>>

(***************************************************************************)
(* The ticket store.                                                       *)
(***************************************************************************)
\* self.tickets.get(ticket_id): the stored ticket's position, 0 for None.
\* Mutant: every lookup finds the first ticket of the store.
TicketIndexFirst(tks, ticket_id) ==
    IF \E i \in 1..Len(tks) : tks[i].id = ticket_id
    THEN 1
    ELSE 0

TicketIndex(tks, ticket_id) ==
    IF \E i \in 1..Len(tks) : tks[i].id = ticket_id
    THEN CHOOSE i \in 1..Len(tks) : tks[i].id = ticket_id
    ELSE 0

StoredIds == {tickets[i].id : i \in 1..Len(tickets)}

TicketOf(ticket_id) == tickets[TicketIndex(tickets, ticket_id)]

\* A Ticket as the model constructs it: the fields the manager reads or writes.
NewTicket(ticket_id, clock, status, priority, severity, assignee_id, aware) ==
    [id |-> ticket_id,
     created_at |-> clock,
     created_at_aware |-> aware,
     updated_at |-> clock,
     status |-> status,
     priority |-> priority,
     severity |-> severity,
     assignee_id |-> assignee_id,
     resolution_notes |-> "None",
     resolved_at |-> NoneTime,
     closed_at |-> NoneTime,
     escalated |-> FALSE,
     escalated_at |-> NoneTime]

\* A ticket enters the store (self.tickets[ticket.id] = ticket) under a fresh id.
StoreTicket(status, priority, severity, assignee_id, aware) ==
    /\ Len(tickets) < MaxTickets
    /\ tickets' = Append(tickets,
                         NewTicket(Len(tickets) + 1, now, status, priority,
                                   severity, assignee_id, aware))
    /\ result' = "stored"
    /\ UNCHANGED <<now, ticket_workflows, escalation_task, collectorVars, anomaly_detector>>

\* The clock moves to the next observed instant.
Tick ==
    /\ \E t \in ClockPoints : t > now
    /\ now' = CHOOSE t \in ClockPoints :
                  t > now /\ \A u \in ClockPoints : u > now => t <= u
    /\ result' = "tick"
    /\ UNCHANGED <<tickets, ticket_workflows, escalation_task, collectorVars, anomaly_detector>>

(***************************************************************************)
(* Tickets created from errors.                                            *)
(***************************************************************************)
TicketCategory ==
    {"bug", "performance", "security", "cost_optimization", "quota_management",
     "integration_issue", "other"}

\* Ticket.id is Optional[str] = None and create_ticket_from_error passes none.
NoneId == 0
\* The keys of ticket_workflows: the ids tickets are stored under.
WorkflowKeys == TicketIds \cup {NoneId}

\* error_data["severity"] and error_data["category"] as callers may send them.
ErrorDataSeverities == {"critical", "CRITICAL", "high", "medium", "low", "fatal"}
ErrorDataCategories ==
    {"rate_limit", "Rate_Limit", "timeout", "latency", "quota_exceeded",
     "authentication", "authorization", "validation", "service_unavailable",
     "unknown"}

\* str.lower() on the inputs above.
Lower(text) ==
    CASE text = "CRITICAL" -> "critical"
      [] text = "Rate_Limit" -> "rate_limit"
      [] OTHER -> text

\* The lower-case words of a category name, split at "_".
Words(category) ==
    CASE Lower(category) = "rate_limit" -> {"rate", "limit"}
      [] Lower(category) = "quota_exceeded" -> {"quota", "exceeded"}
      [] Lower(category) = "service_unavailable" -> {"service", "unavailable"}
      [] OTHER -> {Lower(category)}

MapErrorToSeverity(error_data) ==
    IF Lower(error_data.severity) \in {"critical", "high", "medium", "low"}
    THEN Lower(error_data.severity)
    ELSE "medium"

MapErrorToPriority(error_data) ==
    LET severity == Lower(error_data.severity)
        category == Lower(error_data.category)
    IN  IF severity = "critical"
           \/ category \in {"rate_limit", "authentication", "service_unavailable"}
        THEN "high"
        ELSE IF severity = "high"
                \/ category \in {"timeout", "validation", "quota_exceeded"}
        THEN "medium"
        ELSE "low"

DetermineCategory(error_data) ==
    LET error_category == Lower(error_data.category) IN
    CASE error_category \in {"rate_limit", "timeout", "latency"} -> "performance"
      [] error_category = "quota_exceeded" -> "cost"
      [] error_category \in {"authentication", "authorization"} -> "security"
      [] error_category = "validation" -> "data_quality"
      [] error_category = "service_unavailable" -> "infrastructure"
      [] OTHER -> "general"

\* The words of title.lower(), for provider "openai" and model "gpt":
\* f"{provider}/{model}: {category.replace('_', ' ').title()} Error"
TitleWords(error_data) == {"openai", "gpt", "error"} \cup Words(error_data.category)

SlaHours(severity, priority) ==
    IF severity = "critical" THEN 2
    ELSE IF priority = "high" THEN 8
    ELSE IF priority = "medium" THEN 24
    ELSE 72

\* _calculate_sla_deadline: base_time is its own datetime.utcnow().
CalculateSlaDeadline(ticket, base_time) ==
    base_time + SlaHours(ticket.severity, ticket.priority) * 3600

\* _auto_assign_ticket: the first rule whose condition holds assigns.
AutoAssignTicket(ticket, title) ==
    IF ticket.category = "performance" /\ "latency" \in title
    THEN [ticket EXCEPT !.assignee_id = "performance_team", !.team = "Infrastructure"]
    ELSE IF ticket.category = "cost" \/ "budget" \in title
    THEN [ticket EXCEPT !.assignee_id = "cost_optimization_team", !.team = "FinOps"]
    ELSE IF ticket.severity = "critical"
    THEN [ticket EXCEPT !.assignee_id = "on_call_engineer", !.team = "SRE"]
    ELSE IF "anomaly" \in title
    THEN [ticket EXCEPT !.assignee_id = "data_science_team", !.team = "DataScience"]
    ELSE ticket

\* self.tickets[ticket.id] = ticket: a key already present keeps its place.
TicketsPut(tks, ticket) ==
    IF TicketIndex(tks, ticket.id) = 0
    THEN Append(tks, ticket)
    ELSE [tks EXCEPT ![TicketIndex(tks, ticket.id)] = ticket]

\* create_ticket_from_error(error_data, auto_assign).  Ticket(...) reads the
\* clock for created_at; base_time is what _calculate_sla_deadline reads
\* afterwards.  Ticket(...) raises a ValidationError when the category is no
\* TicketCategory member.
CreateTicketFromError(error_data, auto_assign, base_time) ==
    LET severity == MapErrorToSeverity(error_data)
        priority == MapErrorToPriority(error_data)
        category == DetermineCategory(error_data)
        built == NewTicket(NoneId, now, "open", priority, severity, "None", FALSE)
                 @@ [category |-> category, team |-> "None",
                     sla_deadline |-> NoneTime, original_error |-> error_data]
        dated == [built EXCEPT !.sla_deadline = CalculateSlaDeadline(built, base_time)]
        ticket == IF auto_assign
                  THEN AutoAssignTicket(dated, TitleWords(error_data))
                  ELSE dated
    IN  /\ base_time >= now
        /\ UNCHANGED <<ticket_workflows, escalation_task, collectorVars, anomaly_detector>>
        /\ IF category \notin TicketCategory
               THEN /\ result' = "ValidationError"
                    /\ UNCHANGED <<now, tickets>>
               ELSE /\ Len(tickets) < MaxTickets \/ TicketIndex(tickets, NoneId) # 0
                    /\ tickets' = TicketsPut(tickets, ticket)
                    /\ now' = base_time
                    /\ result' = "created"

(***************************************************************************)
(* Status updates.                                                         *)
(***************************************************************************)
\* Mutant: an open ticket may be put on hold.
valid_transitions_open_pends(current) ==
    CASE current = "open" -> {"in_progress", "pending", "resolved", "closed"}
      [] current = "in_progress" -> {"open", "resolved", "closed"}
      [] current = "resolved" -> {"open", "closed"}
      [] current = "closed" -> {"open"}
      [] OTHER -> {}

\* Mutant: a closed ticket may also be moved to resolved.
valid_transitions_closed_resolves(current) ==
    CASE current = "open" -> {"in_progress", "resolved", "closed"}
      [] current = "in_progress" -> {"open", "resolved", "closed"}
      [] current = "resolved" -> {"open", "closed"}
      [] current = "closed" -> {"open", "resolved"}
      [] OTHER -> {}

valid_transitions(current) ==
    CASE current = "open" -> {"in_progress", "resolved", "closed"}
      [] current = "in_progress" -> {"open", "resolved", "closed"}
      [] current = "resolved" -> {"open", "closed"}
      [] current = "closed" -> {"open"}
      [] OTHER -> {}

IsValidStatusTransition(current, new) == new \in valid_transitions(current)

\* _record_workflow_event: the event appended to the ticket's log.  The
\* timestamp is stored as ISO text; the model keeps the instant it spells.
WorkflowEvent(clock, old_status, new_status, user_id, notes) ==
    [timestamp |-> clock,
     user_id |-> user_id,
     action |-> "status_change",
     old_status |-> old_status,
     new_status |-> new_status,
     notes |-> notes]

\* Mutant: the log keeps only the latest event.
RecordWorkflowEventKeepsLatest(wfs, ticket_id, clock, old_status, new_status, user_id, notes) ==
    [wfs EXCEPT ![ticket_id] =
        <<WorkflowEvent(clock, old_status, new_status, user_id, notes)>>]

RecordWorkflowEvent(wfs, ticket_id, clock, old_status, new_status, user_id, notes) ==
    [wfs EXCEPT ![ticket_id] =
        Append(@, WorkflowEvent(clock, old_status, new_status, user_id, notes))]

\* Mutant: reopening a ticket clears its escalation flag.
StatusUpdatedResetsEscalation(ticket, new_status, user_id, notes, clock) ==
    [ticket EXCEPT
        !.status = new_status,
        !.updated_at = clock,
        !.assignee_id =
            IF new_status = "in_progress" /\ @ = "None" THEN user_id ELSE @,
        !.resolved_at = IF new_status = "resolved" THEN clock ELSE @,
        !.resolution_notes =
            IF new_status = "resolved" /\ notes # "None" THEN notes ELSE @,
        !.closed_at = IF new_status = "closed" THEN clock ELSE @,
        !.escalated = IF new_status = "open" THEN FALSE ELSE @]

\* Mutant: starting work always assigns the ticket to the acting user.
StatusUpdatedAlwaysAssigns(ticket, new_status, user_id, notes, clock) ==
    [ticket EXCEPT
        !.status = new_status,
        !.updated_at = clock,
        !.assignee_id = IF new_status = "in_progress" THEN user_id ELSE @,
        !.resolved_at = IF new_status = "resolved" THEN clock ELSE @,
        !.resolution_notes =
            IF new_status = "resolved" /\ notes # "None" THEN notes ELSE @,
        !.closed_at = IF new_status = "closed" THEN clock ELSE @]

\* The ticket after an accepted update_ticket_status.
StatusUpdated(ticket, new_status, user_id, notes, clock) ==
    [ticket EXCEPT
        !.status = new_status,
        !.updated_at = clock,
        !.assignee_id =
            IF new_status = "in_progress" /\ @ = "None" THEN user_id ELSE @,
        !.resolved_at = IF new_status = "resolved" THEN clock ELSE @,
        !.resolution_notes =
            IF new_status = "resolved" /\ notes # "None" THEN notes ELSE @,
        !.closed_at = IF new_status = "closed" THEN clock ELSE @]

\* Events recorded by update_ticket_status, over all logs.
UpdatesRecorded ==
    Cardinality({p \in WorkflowKeys \X (1..(MaxEvents + 1)) :
                    /\ p[2] <= Len(ticket_workflows[p[1]])
                    /\ ticket_workflows[p[1]][p[2]].user_id # "system"})

\* Mutant: updated_at is stamped before the transition is validated.
UpdateTicketStatusStampsFirst(ticket_id, new_status, user_id, notes) ==
    LET i == TicketIndex(tickets, ticket_id) IN
    /\ UNCHANGED <<escalation_task, collectorVars, anomaly_detector>>
    /\ IF i = 0
           THEN /\ result' = "not_found"
                /\ UNCHANGED <<now, tickets, ticket_workflows>>
           ELSE IF ~IsValidStatusTransition(tickets[i].status, new_status)
           THEN /\ result' = "ValueError"
                /\ tickets' = [tickets EXCEPT ![i].updated_at = now]
                /\ UNCHANGED <<now, ticket_workflows>>
           ELSE /\ UpdatesRecorded < MaxEvents
                /\ tickets' = [tickets EXCEPT
                                  ![i] = StatusUpdated(@, new_status, user_id, notes, now)]
                /\ ticket_workflows' =
                       RecordWorkflowEvent(ticket_workflows, ticket_id, now,
                                           tickets[i].status, new_status, user_id, notes)
                /\ result' = "ok"
                /\ UNCHANGED now

\* Mutant: an unknown ticket id is refused like an invalid transition.
UpdateTicketStatusUnknownRaises(ticket_id, new_status, user_id, notes) ==
    LET i == TicketIndex(tickets, ticket_id) IN
    /\ UNCHANGED <<escalation_task, collectorVars, anomaly_detector>>
    /\ IF i = 0 \/ ~IsValidStatusTransition(tickets[i].status, new_status)
           THEN /\ result' = "ValueError"
                /\ UNCHANGED <<now, tickets, ticket_workflows>>
           ELSE /\ UpdatesRecorded < MaxEvents
                /\ tickets' = [tickets EXCEPT
                                  ![i] = StatusUpdated(@, new_status, user_id, notes, now)]
                /\ ticket_workflows' =
                       RecordWorkflowEvent(ticket_workflows, ticket_id, now,
                                           tickets[i].status, new_status, user_id, notes)
                /\ result' = "ok"
                /\ UNCHANGED now

UpdateTicketStatus(ticket_id, new_status, user_id, notes) ==
    LET i == TicketIndex(tickets, ticket_id) IN
    /\ UNCHANGED <<escalation_task, collectorVars, anomaly_detector>>
    /\ IF i = 0
           THEN \* return None
                /\ result' = "not_found"
                /\ UNCHANGED <<now, tickets, ticket_workflows>>
           ELSE IF ~IsValidStatusTransition(tickets[i].status, new_status)
           THEN \* raise ValueError("Invalid status transition ...")
                /\ result' = "ValueError"
                /\ UNCHANGED <<now, tickets, ticket_workflows>>
           ELSE /\ UpdatesRecorded < MaxEvents
                /\ tickets' = [tickets EXCEPT
                                  ![i] = StatusUpdated(@, new_status, user_id, notes, now)]
                /\ ticket_workflows' =
                       RecordWorkflowEvent(ticket_workflows, ticket_id, now,
                                           tickets[i].status, new_status, user_id, notes)
                /\ result' = "ok"
                /\ UNCHANGED now

(***************************************************************************)
(* The escalation scan.                                                    *)
(***************************************************************************)
\* The part of a rule's condition read before the age: Python's "and" stops
\* at the first false operand.
RuleSelects(rule_name, ticket) ==
    CASE rule_name = "critical_no_response" ->
            ticket.severity = "critical" /\ ticket.status = "open"
      [] rule_name = "high_overdue" ->
            ticket.priority = "high" /\ ticket.status = "open"
      [] rule_name = "medium_overdue" ->
            ticket.priority = "medium" /\ ticket.status = "open"

RuleSeconds(rule_name) ==
    CASE rule_name = "critical_no_response" -> CriticalNoResponseSeconds
      [] rule_name = "high_overdue" -> HighOverdueSeconds
      [] rule_name = "medium_overdue" -> MediumOverdueSeconds

\* datetime.utcnow() - ticket.created_at raises TypeError when created_at
\* carries a timezone (utcnow() is naive).
RuleRaises(rule_name, ticket) ==
    RuleSelects(rule_name, ticket) /\ ticket.created_at_aware

\* rule["condition"](ticket), when it does not raise.
RuleCondition(rule_name, ticket, clock) ==
    /\ RuleSelects(rule_name, ticket)
    /\ (clock - ticket.created_at) > RuleSeconds(rule_name)

\* Mutant: the escalation forgets to set the flag.
EscalatedWithoutFlag(ticket, clock) ==
    [ticket EXCEPT
        !.escalated_at = clock,
        !.updated_at = clock,
        !.priority = IF @ # "high" THEN "high" ELSE @]

\* Mutant: the escalation leaves the priority alone.
EscalatedKeepsPriority(ticket, clock) ==
    [ticket EXCEPT
        !.escalated = TRUE,
        !.escalated_at = clock,
        !.updated_at = clock]

\* _escalate_ticket: the ticket afterwards.
Escalated(ticket, clock) ==
    [ticket EXCEPT
        !.escalated = TRUE,
        !.escalated_at = clock,
        !.updated_at = clock,
        !.priority = IF @ # "high" THEN "high" ELSE @]

\* f"Auto-escalated due to rule: {rule_name}"
EscalationNotes(rule_name) ==
    CASE rule_name = "critical_no_response" ->
            "Auto-escalated due to rule: critical_no_response"
      [] rule_name = "high_overdue" -> "Auto-escalated due to rule: high_overdue"
      [] rule_name = "medium_overdue" -> "Auto-escalated due to rule: medium_overdue"

\* Mutant: the escalation is logged as a move to in_progress.
EscalationEventAsTransition(ticket, rule_name, clock) ==
    WorkflowEvent(clock, ticket.status, "in_progress", "system",
                  EscalationNotes(rule_name))

\* _escalate_ticket: the event it records.
EscalationEvent(ticket, rule_name, clock) ==
    WorkflowEvent(clock, ticket.status, ticket.status, "system",
                  EscalationNotes(rule_name))

\* The walk over the rules for one ticket, from rule k on:
\* [ticket, events, raised, escalated_tickets].
RECURSIVE ApplyRules(_, _, _, _, _)
ApplyRules(ticket, events, hits, k, clock) ==
    IF k > Len(EscalationRuleNames)
    THEN [ticket |-> ticket, events |-> events, raised |-> FALSE, hits |-> hits]
    ELSE LET rule_name == EscalationRuleNames[k] IN
         IF RuleRaises(rule_name, ticket)
         THEN [ticket |-> ticket, events |-> events, raised |-> TRUE, hits |-> hits]
         ELSE IF RuleCondition(rule_name, ticket, clock) /\ ~ticket.escalated
         THEN ApplyRules(Escalated(ticket, clock),
                         Append(events, EscalationEvent(ticket, rule_name, clock)),
                         Append(hits, ticket.id), k + 1, clock)
         ELSE ApplyRules(ticket, events, hits, k + 1, clock)

\* check_escalations from the i-th ticket of the store on:
\* [tickets, ticket_workflows, raised, escalated_tickets].
RECURSIVE ScanFrom(_, _, _, _, _)
ScanFrom(tks, wfs, hits, i, clock) ==
    IF i > Len(tks)
    THEN [tickets |-> tks, ticket_workflows |-> wfs, raised |-> FALSE,
          escalated_tickets |-> hits]
    ELSE IF tks[i].status = "closed"
    THEN ScanFrom(tks, wfs, hits, i + 1, clock)
    ELSE LET r == ApplyRules(tks[i], wfs[tks[i].id], hits, 1, clock)
             tks2 == [tks EXCEPT ![i] = r.ticket]
             wfs2 == [wfs EXCEPT ![tks[i].id] = r.events]
         IN  IF r.raised
             THEN [tickets |-> tks2, ticket_workflows |-> wfs2, raised |-> TRUE,
                   escalated_tickets |-> r.hits]
             ELSE ScanFrom(tks2, wfs2, r.hits, i + 1, clock)

ScanResult == ScanFrom(tickets, ticket_workflows, <<>>, 1, now)

\* check_escalations: what a call does to the manager.
ScanStore ==
    /\ tickets' = ScanResult.tickets
    /\ ticket_workflows' = ScanResult.ticket_workflows
    /\ result' = IF ScanResult.raised THEN "TypeError" ELSE "scanned"
    /\ UNCHANGED now

\* One call of check_escalations.
CheckEscalations ==
    /\ ScanStore
    /\ UNCHANGED <<escalation_task, collectorVars, anomaly_detector>>

(***************************************************************************)
(* The escalation check loop.                                              *)
(***************************************************************************)
\* start_incident_monitoring: asyncio.create_task(escalation_check_loop()).
StartIncidentMonitoring ==
    /\ escalation_task = "None"
    /\ escalation_task' = "check"
    /\ UNCHANGED <<incidentVars, collectorVars, anomaly_detector>>

\* Mutant: the loop has no except clause, the exception ends the task.
EscalationLoopCheckUncaught ==
    /\ escalation_task = "check"
    /\ ScanStore
    /\ escalation_task' = IF ScanResult.raised THEN "finished" ELSE "sleep"
    /\ UNCHANGED <<collectorVars, anomaly_detector>>

\* The loop's try block up to its sleep: the scan, then asyncio.sleep(300)
\* in the try block or, after an exception, in the except block.
EscalationLoopCheck ==
    /\ escalation_task = "check"
    /\ ScanStore
    /\ escalation_task' = IF ScanResult.raised THEN "except_sleep" ELSE "sleep"
    /\ UNCHANGED <<collectorVars, anomaly_detector>>

\* asyncio.sleep(300) is over: while True starts the next cycle.
EscalationLoopWake ==
    /\ escalation_task \in {"sleep", "except_sleep"}
    /\ escalation_task' = "check"
    /\ UNCHANGED <<incidentVars, collectorVars, anomaly_detector>>

(***************************************************************************)
(* The metrics collector.  A metric or an error is the number it was       *)
(* submitted under.  A flush suspends three times: on the acquisition of   *)
(* the connection, on executemany and on the release of the connection.    *)
(***************************************************************************)
\* The coroutines that call _flush_metrics or _flush_errors.
Flushers == {"periodic", "stop", "collect_metric", "collect_error"}

\* No metric and no error.
NoItems == [metrics |-> {}, errors |-> {}]

\* No flush in progress.
Idle == [buffer |-> "none", pc |-> "idle", values |-> <<>>]

\* A flush that found its buffer non-empty and waits for a connection.
Begin(kind) == [buffer |-> kind, pc |-> "acquire", values |-> <<>>]

Buffer(kind) == IF kind = "metrics" THEN batch_buffer ELSE error_buffer

Range(seq) == {seq[i] : i \in 1..Len(seq)}

\* await self._flush_metrics(); await self._flush_errors(): the first of the
\* two that does not return at once on an empty buffer.
FirstFlush(metrics, errors) ==
    IF metrics # <<>> THEN "metrics" ELSE IF errors # <<>> THEN "errors" ELSE "none"

\* stop() has cancelled the periodic task, which has not run since.
CancelRequested ==
    stop_call = "await_task" /\ flush_task \in {"sleep", "flushing"}

\* AIError(category="metric_anomaly") is rejected by the model's validation.
HandleAnomalyRaises == "metric_anomaly" \notin ErrorCategory

\* start()
Start ==
    /\ flush_task = "None"
    /\ stop_call = "idle"
    /\ flush_task' = "sleep"
    /\ UNCHANGED <<batch_buffer, error_buffer, ai_metrics, ai_errors, flush,
                   stop_call, stop_pending, submitted, flush_failures, passed,
                   failed_cycle, cycle_items>>
    /\ UNCHANGED <<incidentVars, escalation_task, anomaly_detector, metric_history>>

\* deque(maxlen=1000)
HistoryMaxLen == 1000

\* Mutant: a full deque refuses the new value.
DequeAppendKeepsOldest(history, value) ==
    IF Len(history) < HistoryMaxLen
    THEN Append(history, value)
    ELSE history

\* history.append(value) on a deque with maxlen: a full deque drops its oldest
\* value.
DequeAppend(history, value) ==
    IF Len(history) < HistoryMaxLen
    THEN Append(history, value)
    ELSE Append(Tail(history), value)

\* The series a metric belongs to: provider and metric_type are enum values,
\* model_name is any string.  Strings are sequences of symbols so that the
\* separator of the key can occur in them.
Series ==
    {[provider |-> <<"openai">>, model_name |-> <<"gpt">>,
      metric_type |-> <<"latency">>],
     [provider |-> <<"openai">>, model_name |-> <<"gpt", ":", "latency">>,
      metric_type |-> <<"latency">>]}

\* The series of the runs that follow the buffers only.
OneSeries == CHOOSE sample \in Series : sample.model_name = <<"gpt">>

\* Mutant: the key leaves out the model name.
MetricKeyWithoutModel(sample) == sample.provider \o <<":">> \o sample.metric_type

\* metric_key = f"{metric.provider}:{metric.model_name}:{metric.metric_type}"
MetricKey(sample) ==
    sample.provider \o <<":">> \o sample.model_name \o <<":">> \o sample.metric_type

\* self.metric_history[metric_key] of the defaultdict
HistoryOf(history, key) == IF key \in DOMAIN history THEN history[key] ELSE <<>>

\* history = self.metric_history[metric_key]; history.append(value)
HistoryAppend(history, key, value) ==
    (key :> DequeAppend(HistoryOf(history, key), value)) @@ history

\* Mutant: _check_anomaly has no try/except, the exception of _handle_anomaly
\* reaches collect_metric's handler, which returns False before the flush.
CollectMetricAnomalyEscapes(sample, is_anomaly) ==
    LET metric == submitted.metrics + 1
        buffer == Append(batch_buffer, metric)
        escapes == is_anomaly /\ HandleAnomalyRaises
        full == ~escapes /\ Len(buffer) >= max_batch_size
    IN  /\ submitted.metrics < MaxMetrics
        /\ full => flush["collect_metric"].pc = "idle"
        /\ submitted' = [submitted EXCEPT
                             !.metrics = metric,
                             !.series = Append(@, sample),
                             !.acknowledged = IF full \/ escapes THEN @ ELSE @ + 1,
                             !.rejected = IF escapes THEN @ + 1 ELSE @]
        /\ batch_buffer' = buffer
        /\ metric_history' = HistoryAppend(metric_history, MetricKey(sample), metric)
        /\ error_buffer' = IF is_anomaly /\ ~HandleAnomalyRaises
                              THEN Append(error_buffer, 0)
                              ELSE error_buffer
        /\ flush' = IF full
                       THEN [flush EXCEPT !["collect_metric"] = Begin("metrics")]
                       ELSE flush
        /\ UNCHANGED <<ai_metrics, ai_errors, flush_task, stop_call, stop_pending,
                       flush_failures, passed, failed_cycle, cycle_items>>
        /\ UNCHANGED <<incidentVars, escalation_task, anomaly_detector>>

\* collect_metric(metric): the append, the anomaly check (is_anomaly is the
\* detector's verdict) and, on a full buffer, the call of _flush_metrics up to
\* its first suspension.  _handle_anomaly raises before it reaches
\* collect_error, and _check_anomaly swallows the exception.
CollectMetric(sample, is_anomaly) ==
    LET metric == submitted.metrics + 1
        buffer == Append(batch_buffer, metric)
        full == Len(buffer) >= max_batch_size
    IN  /\ submitted.metrics < MaxMetrics
        /\ full => flush["collect_metric"].pc = "idle"
        /\ submitted' = [submitted EXCEPT
                             !.metrics = metric,
                             !.series = Append(@, sample),
                             !.acknowledged = IF full THEN @ ELSE @ + 1]
        /\ batch_buffer' = buffer
        /\ metric_history' = HistoryAppend(metric_history, MetricKey(sample), metric)
        /\ error_buffer' = IF is_anomaly /\ ~HandleAnomalyRaises
                              THEN Append(error_buffer, 0)
                              ELSE error_buffer
        /\ flush' = IF full
                       THEN [flush EXCEPT !["collect_metric"] = Begin("metrics")]
                       ELSE flush
        /\ UNCHANGED <<ai_metrics, ai_errors, flush_task, stop_call, stop_pending,
                       flush_failures, passed, failed_cycle, cycle_items>>
        /\ UNCHANGED <<incidentVars, escalation_task, anomaly_detector>>

\* Mutant: the validator lets every value through.
ValidateValueRaisesNever(value) == FALSE

\* AIMetric.validate_value: if v < 0: raise ValueError
ValidateValueRaises(value) == value < 0

\* submit_metric: the request body becomes an AIMetric, which raises on a
\* negative value before the endpoint's code runs; a valid metric goes to
\* collect_metric.
SubmitMetric(value, sample, is_anomaly) ==
    IF ValidateValueRaises(value)
    THEN /\ submitted.invalid < MaxMetrics
         /\ submitted' = [submitted EXCEPT !.invalid = @ + 1]
         /\ UNCHANGED <<batch_buffer, error_buffer, ai_metrics, ai_errors, flush_task,
                        flush, stop_call, stop_pending, flush_failures, passed,
                        failed_cycle, cycle_items, metric_history>>
         /\ UNCHANGED <<incidentVars, escalation_task, anomaly_detector>>
    ELSE CollectMetric(sample @@ [value |-> value], is_anomaly)

\* collect_error(error): the append, the alert of a critical error (a log
\* line) and, on a full buffer, the call of _flush_errors up to its first
\* suspension.
CollectError ==
    LET error == submitted.errors + 1
        buffer == Append(error_buffer, error)
        full == Len(buffer) >= max_batch_size
    IN  /\ submitted.errors < MaxErrors
        /\ full => flush["collect_error"].pc = "idle"
        /\ submitted' = [submitted EXCEPT !.errors = error]
        /\ error_buffer' = buffer
        /\ flush' = IF full
                       THEN [flush EXCEPT !["collect_error"] = Begin("errors")]
                       ELSE flush
        /\ UNCHANGED <<batch_buffer, ai_metrics, ai_errors, flush_task, stop_call,
                       stop_pending, flush_failures, passed, failed_cycle, cycle_items>>
        /\ UNCHANGED <<incidentVars, escalation_task, anomaly_detector, metric_history>>

\* _periodic_flush: asyncio.sleep(flush_interval) is over, the cycle runs up
\* to the first suspension of a flush; with both buffers empty it is over at
\* once.
PeriodicWake ==
    LET kind == FirstFlush(batch_buffer, error_buffer) IN
    /\ flush_task = "sleep"
    /\ ~CancelRequested
    /\ flush_task' = IF kind = "none" THEN "sleep" ELSE "flushing"
    /\ flush' = IF kind = "none" THEN flush
                 ELSE [flush EXCEPT !["periodic"] = Begin(kind)]
    /\ failed_cycle' = IF failed_cycle = "current" THEN "followed" ELSE failed_cycle
    /\ cycle_items' = IF kind = "none" THEN NoItems
                       ELSE [metrics |-> Range(batch_buffer),
                             errors |-> Range(error_buffer)]
    /\ UNCHANGED <<batch_buffer, error_buffer, ai_metrics, ai_errors, stop_call,
                   stop_pending, submitted, flush_failures, passed>>
    /\ UNCHANGED <<incidentVars, escalation_task, anomaly_detector, metric_history>>

\* A flush returns to its caller: the periodic cycle and stop() go on to
\* _flush_errors after _flush_metrics, then the cycle sleeps and stop() returns;
\* collect_metric and collect_error return True.
FlushReturns(c, kind, errors) ==
    LET next == IF kind = "metrics" /\ c \in {"periodic", "stop"} /\ errors # <<>>
                THEN Begin("errors")
                ELSE Idle
    IN  /\ flush' = [flush EXCEPT ![c] = next]
        /\ flush_task' = IF c = "periodic" /\ next = Idle THEN "sleep" ELSE flush_task
        /\ stop_call' = IF c = "stop" /\ next = Idle THEN "returned" ELSE stop_call
        /\ submitted' = IF c = "collect_metric"
                           THEN [submitted EXCEPT !.acknowledged = @ + 1]
                           ELSE submitted
        /\ cycle_items' = IF c = "periodic" /\ next = Idle THEN NoItems
                           ELSE cycle_items

\* except Exception as e: logger.error(...) in _flush_metrics and _flush_errors.
FlushFailed(c) ==
    /\ flush_failures < MaxFailures
    /\ flush_failures' = flush_failures + 1
    /\ failed_cycle' = IF c = "periodic" THEN "current" ELSE failed_cycle

\* async with get_timescale_connection() as conn: the connection arrives, the
\* values are built from the buffer as it is now and executemany is called;
\* or the acquisition raises.
FlushAcquired(c, ok) ==
    LET kind == flush[c].buffer IN
    /\ flush[c].pc = "acquire"
    /\ ~(c = "periodic" /\ CancelRequested)
    /\ IF ok
          THEN /\ flush' = [flush EXCEPT ![c].pc = "executemany",
                                         ![c].values = Buffer(kind)]
               /\ passed' = [passed EXCEPT ![kind] = @ \cup Range(Buffer(kind))]
               /\ UNCHANGED <<flush_task, stop_call, submitted, flush_failures,
                              failed_cycle, cycle_items>>
          ELSE /\ FlushFailed(c)
               /\ FlushReturns(c, kind, error_buffer)
               /\ UNCHANGED passed
    /\ UNCHANGED <<batch_buffer, error_buffer, ai_metrics, ai_errors, stop_pending>>
    /\ UNCHANGED <<incidentVars, escalation_task, anomaly_detector, metric_history>>

\* await conn.executemany(...): the rows are inserted, the connection is being
\* released; or the statement raises.
FlushExecuted(c, ok) ==
    LET kind == flush[c].buffer IN
    /\ flush[c].pc = "executemany"
    /\ ~(c = "periodic" /\ CancelRequested)
    /\ IF ok
          THEN /\ flush' = [flush EXCEPT ![c].pc = "release"]
               /\ ai_metrics' = IF kind = "metrics"
                                   THEN ai_metrics \o flush[c].values
                                   ELSE ai_metrics
               /\ ai_errors' = IF kind = "errors"
                                  THEN ai_errors \o flush[c].values
                                  ELSE ai_errors
               /\ UNCHANGED <<flush_task, stop_call, submitted, flush_failures,
                              failed_cycle, cycle_items>>
          ELSE /\ FlushFailed(c)
               /\ FlushReturns(c, kind, error_buffer)
               /\ UNCHANGED <<ai_metrics, ai_errors>>
    /\ UNCHANGED <<batch_buffer, error_buffer, stop_pending, passed>>
    /\ UNCHANGED <<incidentVars, escalation_task, anomaly_detector, metric_history>>

\* The connection is released: the buffer is cleared and the flush returns; or
\* the release raises and the buffer stays as it is.
FlushReleased(c, ok) ==
    LET kind == flush[c].buffer IN
    /\ flush[c].pc = "release"
    /\ ~(c = "periodic" /\ CancelRequested)
    /\ IF ok
          THEN /\ batch_buffer' = IF kind = "metrics" THEN <<>> ELSE batch_buffer
               /\ error_buffer' = IF kind = "errors" THEN <<>> ELSE error_buffer
               /\ FlushReturns(c, kind, error_buffer)
               /\ UNCHANGED <<flush_failures, failed_cycle>>
          ELSE /\ FlushFailed(c)
               /\ FlushReturns(c, kind, error_buffer)
               /\ UNCHANGED <<batch_buffer, error_buffer>>
    /\ UNCHANGED <<ai_metrics, ai_errors, stop_pending, passed>>
    /\ UNCHANGED <<incidentVars, escalation_task, anomaly_detector, metric_history>>

\* stop() goes on to its final flushes, up to the first suspension; with both
\* buffers empty it returns at once.
StopFlushes ==
    LET kind == FirstFlush(batch_buffer, error_buffer) IN
    /\ stop_call' = IF kind = "none" THEN "returned" ELSE "flushing"
    /\ flush' = IF kind = "none" THEN flush
                 ELSE [flush EXCEPT !["stop"] = Begin(kind)]

\* Mutant: stop() goes to its final flushes without cancelling the task.
StopWithoutCancel ==
    /\ stop_call = "idle"
    /\ stop_pending' = [metrics |-> Range(batch_buffer),
                        errors |-> Range(error_buffer)]
    /\ StopFlushes
    /\ UNCHANGED <<batch_buffer, error_buffer, ai_metrics, ai_errors, flush_task,
                   submitted, flush_failures, passed, failed_cycle, cycle_items>>
    /\ UNCHANGED <<incidentVars, escalation_task, anomaly_detector, metric_history>>

\* stop() is called: a created task is cancelled and awaited, otherwise the
\* final flushes start.
Stop ==
    /\ stop_call = "idle"
    /\ stop_pending' = [metrics |-> Range(batch_buffer),
                        errors |-> Range(error_buffer)]
    /\ IF flush_task # "None"
          THEN stop_call' = "await_task" /\ UNCHANGED flush
          ELSE StopFlushes
    /\ UNCHANGED <<batch_buffer, error_buffer, ai_metrics, ai_errors, flush_task,
                   submitted, flush_failures, passed, failed_cycle, cycle_items>>
    /\ UNCHANGED <<incidentVars, escalation_task, anomaly_detector, metric_history>>

\* The cancelled task runs again: CancelledError is raised where it was
\* suspended, _periodic_flush breaks out of its loop.  A statement that was
\* being executed has been applied or not (applied).
PeriodicCancelled(applied) ==
    LET f == flush["periodic"] IN
    /\ CancelRequested
    /\ applied => f.pc = "executemany"
    /\ ai_metrics' = IF applied /\ f.buffer = "metrics"
                        THEN ai_metrics \o f.values ELSE ai_metrics
    /\ ai_errors' = IF applied /\ f.buffer = "errors"
                       THEN ai_errors \o f.values ELSE ai_errors
    /\ flush' = [flush EXCEPT !["periodic"] = Idle]
    /\ flush_task' = "done"
    /\ cycle_items' = NoItems
    /\ UNCHANGED <<batch_buffer, error_buffer, stop_call, stop_pending, submitted,
                   flush_failures, passed, failed_cycle>>
    /\ UNCHANGED <<incidentVars, escalation_task, anomaly_detector, metric_history>>

\* await self._flush_task is over: stop() goes on to its final flushes.
StopResumes ==
    /\ stop_call = "await_task"
    /\ flush_task = "done"
    /\ StopFlushes
    /\ UNCHANGED <<batch_buffer, error_buffer, ai_metrics, ai_errors, flush_task,
                   stop_pending, submitted, flush_failures, passed, failed_cycle, cycle_items>>
    /\ UNCHANGED <<incidentVars, escalation_task, anomaly_detector, metric_history>>

(***************************************************************************)
(* The anomaly detector, for one series key.  Values are integers; Infinity *)
(* stands for a float the validator lets through (inf, nan) and on which   *)
(* the statistics module and the forest's fit raise.                       *)
(***************************************************************************)
\* if len(history) < 10: return False
MinHistory == 10
\* list(history)[-50:]
RecentWindow == 50
\* z_score > 3.0
ZScoreLimit == 3
\* if len(self.metric_history[metric_key]) > 50
ForestMinHistory == 50
\* len(history) % 100 == 0
RetrainEvery == 100

Infinity == 100000

\* self.isolation_forests holds no model for the key.
Untrained == [trained |-> FALSE, X |-> {}]

\* list(history)[-50:]
Recent(history) ==
    SubSeq(history,
           IF Len(history) > RecentWindow THEN Len(history) - RecentWindow + 1 ELSE 1,
           Len(history))

RECURSIVE SumTo(_, _)
SumTo(seq, k) == IF k = 0 THEN 0 ELSE seq[k] + SumTo(seq, k - 1)

\* The recent values as distances from the sample, their sum and their sum of
\* squares: mean - value is Sum / n and the variance is
\* (n * Squares - Sum^2) / (n * (n - 1)), both unchanged by the shift.
Distances(recent, value) == [i \in 1..Len(recent) |-> recent[i] - value]

Squares(seq) == [i \in 1..Len(seq) |-> seq[i] * seq[i]]

\* statistics.mean / statistics.stdev raise on inf and nan.
StatisticsRaise(recent) == \E i \in 1..Len(recent) : recent[i] = Infinity

\* std_dev > 0
StdDevPositive(recent, value) ==
    LET n == Len(recent)
        d == Distances(recent, value)
        sum == SumTo(d, n)
        squares == SumTo(Squares(d), n)
    IN  n > 1 /\ n * squares - sum * sum > 0

\* Mutant: the z-score limit is 7.
ZScoreExceedsSeven(recent, value) ==
    LET n == Len(recent)
        d == Distances(recent, value)
        sum == SumTo(d, n)
        squares == SumTo(Squares(d), n)
    IN  sum * sum * (n - 1) > 7 * 7 * n * (n * squares - sum * sum)

\* abs(value - mean) / std_dev > 3.0, squared and cleared of its fractions.
ZScoreExceeds(recent, value) ==
    LET n == Len(recent)
        d == Distances(recent, value)
        sum == SumTo(d, n)
        squares == SumTo(Squares(d), n)
    IN  sum * sum * (n - 1) >
            ZScoreLimit * ZScoreLimit * n * (n * squares - sum * sum)

\* _statistical_anomaly after its append, when statistics does not raise.
StatisticalAnomaly(history, value) ==
    /\ Len(history) >= MinHistory
    /\ StdDevPositive(Recent(history), value)
    /\ ZScoreExceeds(Recent(history), value)

\* history[:-1]
Front(history) == SubSeq(history, 1, Len(history) - 1)

\* Mutant: a forest that may mark any sample, also one equal to all its
\* training values.
IsolationForestPredictAnything(X, value) == {1, -1}

\* model.predict([[value]])[0] for a forest fitted on X with contamination 0.1:
\* -1 marks an anomaly.  When every training value equals the sample no tree
\* can split, the sample's score equals the offset taken from the training
\* scores, and the prediction is 1; otherwise either answer is possible.
IsolationForestPredict(X, value) == IF X = {value} THEN {1} ELSE {1, -1}

\* Mutant: the forest is consulted, and refitted when due, also for a sample
\* the statistical tier has flagged.
DetectionAlwaysConsults(detector, value, prediction) ==
    LET history == DequeAppend(detector.metric_history, value)
        statistics_raise ==
            Len(history) >= MinHistory /\ StatisticsRaise(Recent(history))
        statistical == ~statistics_raise /\ StatisticalAnomaly(history, value)
        consulted == ~statistics_raise /\ Len(history) > ForestMinHistory
        retrain ==
            /\ consulted
            /\ ~detector.isolation_forests.trained \/ Len(history) % RetrainEvery = 0
            /\ Len(history) >= ForestMinHistory
        fit_raises == retrain /\ Infinity \in Range(Front(history))
        forests == IF retrain /\ ~fit_raises
                   THEN [trained |-> TRUE, X |-> Range(Front(history))]
                   ELSE detector.isolation_forests
        predicts == consulted /\ ~fit_raises /\ forests.trained
    IN  [metric_history |-> history,
         isolation_forests |-> forests,
         predicts |-> predicts,
         outer_except |-> statistics_raise,
         inner_except |-> fit_raises,
         anomaly |-> statistical \/ (predicts /\ prediction = -1)]

\* What one detect_anomaly(metric) call computes: the history, the forest and
\* the returned value, or "raised" where an exception reaches the outer
\* handler of detect_anomaly.
Detection(detector, value, prediction) ==
    LET history == DequeAppend(detector.metric_history, value)
        statistics_raise ==
            Len(history) >= MinHistory /\ StatisticsRaise(Recent(history))
        statistical == ~statistics_raise /\ StatisticalAnomaly(history, value)
        consulted ==
            ~statistics_raise /\ ~statistical /\ Len(history) > ForestMinHistory
        retrain ==
            /\ consulted
            /\ ~detector.isolation_forests.trained \/ Len(history) % RetrainEvery = 0
            /\ Len(history) >= ForestMinHistory
        fit_raises == retrain /\ Infinity \in Range(Front(history))
        forests == IF retrain /\ ~fit_raises
                   THEN [trained |-> TRUE, X |-> Range(Front(history))]
                   ELSE detector.isolation_forests
        predicts == consulted /\ ~fit_raises /\ forests.trained
    IN  [metric_history |-> history,
         isolation_forests |-> forests,
         predicts |-> predicts,
         outer_except |-> statistics_raise,
         inner_except |-> fit_raises,
         anomaly |-> statistical \/ (predicts /\ prediction = -1)]

\* Mutant: detect_anomaly has no try/except of its own.
DetectAnomalyUncaught(value, prediction) ==
    LET r == Detection(anomaly_detector, value, prediction) IN
    /\ anomaly_detector.samples < MaxSamples
    /\ prediction \in (IF r.predicts
                         THEN IsolationForestPredict(r.isolation_forests.X, value)
                         ELSE {1})
    /\ anomaly_detector' =
           [metric_history |-> r.metric_history,
            isolation_forests |-> r.isolation_forests,
            samples |-> anomaly_detector.samples + 1,
            result |-> IF r.outer_except THEN "raised"
                       ELSE IF r.anomaly THEN "True" ELSE "False"]
    /\ UNCHANGED <<incidentVars, escalation_task, collectorVars>>

\* detect_anomaly(metric): prediction is the forest's answer where it is asked.
DetectAnomaly(value, prediction) ==
    LET r == Detection(anomaly_detector, value, prediction) IN
    /\ anomaly_detector.samples < MaxSamples
    /\ prediction \in (IF r.predicts
                         THEN IsolationForestPredict(r.isolation_forests.X, value)
                         ELSE {1})
    /\ anomaly_detector' =
           [metric_history |-> r.metric_history,
            isolation_forests |-> r.isolation_forests,
            samples |-> anomaly_detector.samples + 1,
            result |-> IF ~r.outer_except /\ r.anomaly THEN "True" ELSE "False"]
    /\ UNCHANGED <<incidentVars, escalation_task, collectorVars>>

(***************************************************************************)
(* The program as a state machine.                                         *)
(***************************************************************************)
Init ==
    /\ now = 0
    /\ tickets = <<>>
    /\ ticket_workflows = [id \in WorkflowKeys |-> <<>>]
    /\ result = "none"
    /\ escalation_task = "None"
    /\ batch_buffer = <<>>
    /\ error_buffer = <<>>
    /\ ai_metrics = <<>>
    /\ ai_errors = <<>>
    /\ flush_task = "None"
    /\ flush = [c \in Flushers |-> Idle]
    /\ stop_call = "idle"
    /\ stop_pending = [metrics |-> {}, errors |-> {}]
    /\ submitted = [metrics |-> 0, errors |-> 0, acknowledged |-> 0, rejected |-> 0,
                    series |-> <<>>, invalid |-> 0]
    /\ metric_history = <<>>
    /\ flush_failures = 0
    /\ passed = [metrics |-> {}, errors |-> {}]
    /\ failed_cycle = "none"
    /\ cycle_items = NoItems
    /\ anomaly_detector = [metric_history |-> <<>>, isolation_forests |-> Untrained,
                           samples |-> 0, result |-> "none"]

\* Ticket lifecycle: tickets of every status, status updates, a short clock.
NextLifecycle ==
    \/ \E status \in TicketStatus :
          StoreTicket(status, "low", "low", "None", FALSE) /\ now = 0
    \/ \E ticket_id \in TicketIds, new_status \in TicketStatus,
          user_id \in Users, notes \in Notes :
          UpdateTicketStatus(ticket_id, new_status, user_id, notes)
    \/ (Tick /\ now' <= CriticalNoResponseSeconds)

SpecLifecycle == Init /\ [][NextLifecycle]_vars

\* Escalation: open tickets, closed and reopened by a user, scanned as the
\* clock passes the first two age limits.
NextEscalation ==
    \/ \E priority \in EscalationPriorities, severity \in StoredSeverities :
          StoreTicket("open", priority, severity, "None", FALSE) /\ now = 0
    \/ \E ticket_id \in TicketIds, new_status \in {"open", "closed"},
          user_id \in Users :
          UpdateTicketStatus(ticket_id, new_status, user_id, "None")
    \/ CheckEscalations
    \/ (Tick /\ now' <= HighOverdueSeconds + 1)

SpecEscalation == Init /\ [][NextEscalation]_vars

\* Scans alone: tickets of any priority, with and without a timezone on
\* created_at, stored at any time and scanned at every observed instant.
NextScan ==
    \/ \E status \in ScannedStatuses, priority \in TicketPriority,
          severity \in StoredSeverities, aware \in BOOLEAN :
          StoreTicket(status, priority, severity, "None", aware)
    \/ CheckEscalations
    \/ Tick

SpecScan == Init /\ [][NextScan]_vars

\* A step of one of the collector's flushes.
FlushStep(c) ==
    \/ \E ok \in BOOLEAN : FlushAcquired(c, ok)
    \/ \E ok \in BOOLEAN : FlushExecuted(c, ok)
    \/ \E ok \in BOOLEAN : FlushReleased(c, ok)

\* The collector: submissions, the periodic task, stop().
NextCollector ==
    \/ Start
    \/ \E is_anomaly \in BOOLEAN : CollectMetric(OneSeries, is_anomaly)
    \/ CollectError
    \/ PeriodicWake
    \/ \E c \in Flushers : FlushStep(c)
    \/ Stop
    \/ \E applied \in BOOLEAN : PeriodicCancelled(applied)
    \/ StopResumes

SpecCollector == Init /\ [][NextCollector]_vars

\* The steps of the periodic flush task.
PeriodicFlushStep ==
    \/ PeriodicWake
    \/ FlushStep("periodic")
    \/ \E applied \in BOOLEAN : PeriodicCancelled(applied)

\* The steps of the escalation check loop.
EscalationLoopStep ==
    \/ EscalationLoopCheck
    \/ EscalationLoopWake

\* The shutdown half of lifespan has run: stop() of the collector has
\* returned.  The steps after it close the database, ClickHouse and cache
\* connections; none of them touches a task or a ticket.
ShutdownComplete == stop_call = "returned"

\* The two background loops side by side: one open critical ticket, with or
\* without a timezone on created_at, and light traffic (no buffer fills up).
\* As in lifespan, incident monitoring is started before the shutdown half.
NextLoops ==
    \/ Start
    \/ (CollectMetric(OneSeries, FALSE) /\ Len(batch_buffer') < max_batch_size)
    \/ (CollectError /\ Len(error_buffer') < max_batch_size)
    \/ PeriodicFlushStep
    \/ Stop
    \/ StopResumes
    \/ FlushStep("stop")
    \/ (StartIncidentMonitoring /\ stop_call = "idle")
    \/ EscalationLoopStep
    \/ \E aware \in BOOLEAN :
          StoreTicket("open", "low", "critical", "None", aware)
              /\ now = 0 /\ tickets = <<>>
    \/ (Tick /\ now' <= CriticalNoResponseSeconds + 1)

\* The event loop resumes a task whose sleep or I/O is over.
SpecLoops ==
    /\ Init
    /\ [][NextLoops]_vars
    /\ WF_vars(PeriodicFlushStep)
    /\ WF_vars(EscalationLoopStep)

\* Tickets created from errors, updated by a user under the id they were
\* stored under, and scanned as the clock passes the first two age limits.
\* Errors arrive until the first event is logged.
NextIncident ==
    \/ \E severity \in {"critical", "low"}, category \in {"timeout", "unknown"},
          auto_assign \in BOOLEAN :
          /\ ticket_workflows[NoneId] = <<>>
          /\ CreateTicketFromError([severity |-> severity, category |-> category],
                                   auto_assign, now)
    \/ \E new_status \in TicketStatus, user_id \in Users, notes \in Notes :
          UpdateTicketStatus(NoneId, new_status, user_id, notes)
    \/ CheckEscalations
    \/ (Tick /\ now' <= HighOverdueSeconds + 1)

SpecIncident == Init /\ [][NextIncident]_vars

\* The collector from construction to after stop(): metrics arrive at any
\* time, before start(), while the periodic task runs, during stop() and
\* after it has returned.
NextLifetime ==
    \/ Start
    \/ CollectMetric(OneSeries, FALSE)
    \/ FlushStep("collect_metric")
    \/ PeriodicFlushStep
    \/ Stop
    \/ StopResumes
    \/ FlushStep("stop")

\* start() is called at startup, and the event loop resumes every task and
\* every call whose sleep or I/O is over.
SpecLifetime ==
    /\ Init
    /\ [][NextLifetime]_vars
    /\ WF_vars(Start)
    /\ WF_vars(PeriodicFlushStep)
    /\ WF_vars(FlushStep("collect_metric"))
    /\ WF_vars(StopResumes)
    /\ WF_vars(FlushStep("stop"))

\* The values of a short series.
ShortValues == {1, 2}
\* The values a constant series may repeat.
ConstantValues == {0, 7, Infinity}

\* A short series of freely chosen values.
NextDetector ==
    \E value \in ShortValues, prediction \in {1, -1} :
        /\ anomaly_detector.samples < MaxShortSamples
        /\ DetectAnomaly(value, prediction)

SpecDetector == Init /\ [][NextDetector]_vars

\* A long rising series 0, 1, 2, ... whose first sample may be inf.
NextRamp ==
    \E value \in {anomaly_detector.samples, Infinity}, prediction \in {1, -1} :
        /\ value = Infinity => anomaly_detector.samples = 0
        /\ DetectAnomaly(value, prediction)

SpecRamp == Init /\ [][NextRamp]_vars

\* A long series that repeats its first value.
NextConstant ==
    \E value \in ConstantValues, prediction \in {1, -1} :
        /\ anomaly_detector.samples > 0 =>
              value = anomaly_detector.metric_history[1]
        /\ DetectAnomaly(value, prediction)

SpecConstant == Init /\ [][NextConstant]_vars

\* The values of a stable series around 10, and a sample ten times its mean.
StableValues == {9, 10, 11}
SpikeValue == 100

\* A stable series that repeats two values in turn, followed at any point by
\* one spike; the series may begin with one sample of inf.
NextSpike ==
    \E value \in StableValues \cup {SpikeValue, Infinity}, prediction \in {1, -1} :
        LET history == anomaly_detector.metric_history IN
        /\ SpikeValue \notin Range(history)
        /\ value = Infinity => Len(history) = 0
        /\ value = SpikeValue \/ anomaly_detector.samples < MaxStableSamples
        /\ (value # SpikeValue /\ Len(history) >= 2
               /\ history[Len(history) - 1] # Infinity) =>
              value = history[Len(history) - 1]
        /\ DetectAnomaly(value, prediction)

SpecSpike == Init /\ [][NextSpike]_vars

\* The collector fed with metrics of several series.
NextSeries ==
    \/ Start
    \/ \E sample \in Series, is_anomaly \in BOOLEAN : CollectMetric(sample, is_anomaly)
    \/ PeriodicWake
    \/ \E c \in Flushers : FlushStep(c)

SpecSeries == Init /\ [][NextSeries]_vars

\* Tickets are created from errors while the clock moves.
NextCreate ==
    \/ \E severity \in ErrorDataSeverities, category \in ErrorDataCategories,
          auto_assign \in BOOLEAN, base_time \in ClockPoints :
          CreateTicketFromError([severity |-> severity, category |-> category],
                                auto_assign, base_time)
    \/ Tick

SpecCreate == Init /\ [][NextCreate]_vars

\* Assignees of the tickets that enter the store: none, or one given by
\* the assignment rules.
StoredAssignees == {"None", "on_call_engineer"}

\* The whole workflow: open tickets, assigned or not, updated by a user and
\* scanned as the clock passes the first two age limits.
NextWorkflow ==
    \/ \E priority \in {"high", "low"}, assignee_id \in StoredAssignees :
          StoreTicket("open", priority, "low", assignee_id, FALSE) /\ now = 0
    \/ \E ticket_id \in TicketIds, new_status \in TicketStatus,
          user_id \in Users, notes \in Notes :
          UpdateTicketStatus(ticket_id, new_status, user_id, notes)
    \/ CheckEscalations
    \/ (Tick /\ now' <= HighOverdueSeconds + 1)

SpecWorkflow == Init /\ [][NextWorkflow]_vars

\* Values a caller may put in a metric.
SubmittedValues == {-1, 0, 5}

\* Metrics arrive as requests, valid or not.
NextSubmit ==
    \/ Start
    \/ \E value \in SubmittedValues, sample \in Series, is_anomaly \in BOOLEAN :
          SubmitMetric(value, sample, is_anomaly)
    \/ PeriodicWake
    \/ \E c \in Flushers : FlushStep(c)

SpecSubmit == Init /\ [][NextSubmit]_vars

(***************************************************************************)
(* Claims on the ticket lifecycle (SpecLifecycle).                         *)
(***************************************************************************)
\* The legal-transition table as the specification states it.
LegalTransitions ==
    {<<"open", "in_progress">>, <<"open", "resolved">>, <<"open", "closed">>,
     <<"in_progress", "open">>, <<"in_progress", "resolved">>,
     <<"in_progress", "closed">>,
     <<"resolved", "open">>, <<"resolved", "closed">>,
     <<"closed", "open">>}

StatusOf(tks, ticket_id) == tks[TicketIndex(tks, ticket_id)].status

\* C1: update_ticket_status on a stored ticket changes the status exactly
\* when (current, requested) is in the legal table, and then to the requested
\* status; every other request ends in the invalid-transition error with the
\* status as it was; and no step changes a status by a pair outside the table.
C1_TransitionsFollowTable ==
    [][/\ \A ticket_id \in StoredIds, new_status \in TicketStatus,
             user_id \in Users, notes \in Notes :
             UpdateTicketStatus(ticket_id, new_status, user_id, notes) =>
                 IF <<StatusOf(tickets, ticket_id), new_status>> \in LegalTransitions
                 THEN /\ StatusOf(tickets', ticket_id) = new_status
                      /\ result' = "ok"
                 ELSE /\ StatusOf(tickets', ticket_id) = StatusOf(tickets, ticket_id)
                      /\ result' = "ValueError"
       /\ \A i \in 1..Len(tickets) :
             tickets'[i].status # tickets[i].status =>
                 <<tickets[i].status, tickets'[i].status>> \in LegalTransitions
      ]_vars

\* C1 witness: a ticket was closed through an update and is still closed after
\* a later request on the store was refused.
C1_Witness ==
    /\ result = "ValueError"
    /\ \E i \in 1..Len(tickets) :
          /\ tickets[i].status = "closed"
          /\ ticket_workflows[tickets[i].id] # <<>>
    /\ \E i \in 1..Len(tickets) : tickets[i].status = "pending"

\* C2: a refused update leaves every ticket and every workflow log exactly as
\* they were.
C2_RejectionChangesNothing ==
    [][\A ticket_id \in TicketIds, new_status \in TicketStatus,
          user_id \in Users, notes \in Notes :
          (UpdateTicketStatus(ticket_id, new_status, user_id, notes)
              /\ result' = "ValueError") =>
                 /\ tickets' = tickets
                 /\ ticket_workflows' = ticket_workflows
      ]_vars

\* C2 witness: a request was refused in a store of two tickets, one of them
\* resolved earlier (stamps and log set), after the clock has moved on.
C2_Witness ==
    /\ result = "ValueError"
    /\ Len(tickets) = 2
    /\ \E i \in 1..Len(tickets) :
          /\ tickets[i].status = "resolved"
          /\ tickets[i].resolved_at # NoneTime
          /\ tickets[i].resolved_at < now
          /\ Len(ticket_workflows[tickets[i].id]) = 1

(***************************************************************************)
(* Claims on the escalation scan (SpecEscalation, SpecScan).               *)
(***************************************************************************)
SystemEvents(events) == {k \in 1..Len(events) : events[k].user_id = "system"}

\* A ticket was escalated, then closed and reopened by a user.
ReopenedAfterEscalation(ticket) ==
    LET events == ticket_workflows[ticket.id] IN
    /\ ticket.escalated
    /\ ticket.status = "open"
    /\ Len(events) = 3
    /\ events[1].user_id = "system"
    /\ events[2].new_status = "closed"
    /\ events[3].new_status = "open"

\* C3: once a ticket is escalated it is escalated in every later state.
C3_EscalatedIsSticky ==
    [][\A i \in 1..Len(tickets) : tickets[i].escalated => tickets'[i].escalated]_vars

\* C3 witness: an escalated ticket that was closed and reopened afterwards.
C3_Witness ==
    \E i \in 1..Len(tickets) : ReopenedAfterEscalation(tickets[i])

ClaimedEligible(ticket, clock) ==
    /\ ~ticket.escalated
    /\ ticket.status = "open"
    /\ \/ ticket.severity = "critical" /\ (clock - ticket.created_at) > 15 * 60
       \/ ticket.priority = "high" /\ (clock - ticket.created_at) > 60 * 60
       \/ ticket.priority = "medium" /\ (clock - ticket.created_at) > 240 * 60

NewlyEscalated(i) == ~tickets[i].escalated /\ tickets'[i].escalated

C6_EscalationEffect ==
    [][\A i \in 1..Len(tickets) :
          NewlyEscalated(i) =>
              LET before == tickets[i]
                  after == tickets'[i]
                  events == ticket_workflows[before.id]
                  events2 == ticket_workflows'[before.id]
              IN  /\ after.escalated_at = now
                  /\ after.priority = "high"
                  /\ Len(events2) = Len(events) + 1
                  /\ SubSeq(events2, 1, Len(events)) = events
                  /\ events2[Len(events2)].user_id = "system"
                  /\ after.status = before.status
                  /\ after.assignee_id = before.assignee_id]_vars

\* C6 witness: scans have escalated one ticket through the high-priority rule
\* (at 3601 s) and one through the critical-severity rule (at 901 s).
C6_Witness ==
    /\ result = "scanned"
    /\ \E i, j \in 1..Len(tickets) :
          /\ tickets[i].escalated /\ tickets[j].escalated
          /\ tickets[i].escalated_at = HighOverdueSeconds + 1
          /\ tickets[i].severity = "low"
          /\ tickets[j].severity = "critical"
          /\ tickets[j].escalated_at = CriticalNoResponseSeconds + 1

PriorityRank(priority) ==
    CASE priority = "critical" -> 4
      [] priority = "high" -> 3
      [] priority = "medium" -> 2
      [] priority = "low" -> 1

\* C7 (as claimed): an escalation never lowers the ticket's priority.
C7_EscalationNeverLowersPriority ==
    [][\A i \in 1..Len(tickets) :
          NewlyEscalated(i) =>
              PriorityRank(tickets'[i].priority) >= PriorityRank(tickets[i].priority)
      ]_vars

\* C8 (as claimed): a scan in which the evaluation of one ticket fails still
\* escalates every other ticket that matches a rule.
C8_FailureDoesNotFailTheBatch ==
    [][(CheckEscalations /\ result' = "TypeError") =>
          \A i \in 1..Len(tickets) :
              (ClaimedEligible(tickets[i], now) /\ ~tickets[i].created_at_aware)
                  => tickets'[i].escalated]_vars

(***************************************************************************)
(* Claims on the background loops (SpecLoops).                             *)
(***************************************************************************)
\* C9: a cycle that fails does not end its loop.  Once a periodic-flush cycle
\* has logged a storage error, a later cycle starts unless stop() is called;
\* once a scan of the escalation loop has raised, the loop comes back to its
\* next scan.
C9_LoopsSurviveFailedCycles ==
    /\ (failed_cycle = "current" /\ stop_call = "idle")
           ~> (failed_cycle = "followed" \/ stop_call # "idle")
    /\ (result = "TypeError") ~> (escalation_task = "check")

\* Both loops are in a cycle that follows a failed one, the periodic task
\* suspended in a flush and the escalation loop about to scan.
C9_Witness ==
    /\ failed_cycle = "followed"
    /\ flush_task = "flushing"
    /\ stop_call = "idle"
    /\ result = "TypeError"
    /\ escalation_task = "check"

(***************************************************************************)
(* Claims on the metrics collector (SpecCollector).                        *)
(***************************************************************************)
\* C10: when stop() returns, everything the buffers held when it was called
\* has been handed to executemany, and both buffers are empty.
C10_StopDrainsTheBuffers ==
    [][(stop_call # "returned" /\ stop_call' = "returned") =>
          /\ stop_pending'.metrics \subseteq passed'.metrics
          /\ stop_pending'.errors \subseteq passed'.errors
          /\ batch_buffer' = <<>>
          /\ error_buffer' = <<>>]_vars

\* C11: stop() is past its wait for the periodic task (in its final flushes or
\* returned) only when that task has terminated or was never created, with no
\* periodic flush left in progress; and once stop() has returned no step is a
\* step of the periodic task.
C11_StopCancelsBeforeFinalFlush ==
    [][/\ stop_call' \in {"flushing", "returned"} =>
             /\ flush_task' \in {"None", "done"}
             /\ flush'["periodic"] = Idle
       /\ stop_call = "returned" =>
             /\ flush_task' = flush_task
             /\ flush'["periodic"] = flush["periodic"]
      ]_vars

\* C11 witness: stop() has returned after cancelling a periodic flush that had
\* written its batch but not yet cleared the buffer: the only metric submitted
\* was written by the periodic flush and again by the final flush, with no
\* storage error.
C11_Witness ==
    /\ stop_call = "returned"
    /\ flush_task = "done"
    /\ submitted.metrics = 1
    /\ flush_failures = 0
    /\ ai_metrics = <<1, 1>>

\* The buffer a flush works on, in the state after the step.
BufferAfter(kind) == IF kind = "metrics" THEN batch_buffer' ELSE error_buffer'

\* The rows a table holds, in the state after the step.
RowsAfter(kind) == IF kind = "metrics" THEN ai_metrics' ELSE ai_errors'

\* C12 (as claimed): when executemany raises, the items of the batch it was
\* given are dropped: the buffer no longer holds any of them once the flush
\* has failed.
C12_FailedBatchIsDropped ==
    [][\A c \in Flushers :
          FlushExecuted(c, FALSE) =>
              Range(flush[c].values) \cap Range(BufferAfter(flush[c].buffer)) = {}
      ]_vars

\* C13 (as claimed): when a flush completes and clears the buffer, every item
\* the buffer held is either still in the buffer or among the rows written to
\* storage.
C13_AppendsSurviveAFlush ==
    [][\A c \in Flushers :
          FlushReleased(c, TRUE) =>
              \A item \in Range(Buffer(flush[c].buffer)) :
                  \/ item \in Range(BufferAfter(flush[c].buffer))
                  \/ item \in Range(RowsAfter(flush[c].buffer))
      ]_vars

\* C14 (as claimed): collect_metric adds exactly one error event to the error
\* buffer when the detector reports the metric as anomalous, and none
\* otherwise.
C14_AnomalyAddsOneError ==
    [][\A is_anomaly \in BOOLEAN :
          CollectMetric(OneSeries, is_anomaly) =>
              Len(error_buffer') =
                  Len(error_buffer) + (IF is_anomaly THEN 1 ELSE 0)
      ]_vars

\* C16: every collect_metric call appends its metric to the buffer and none
\* ever returns False: whenever no call is suspended in its size-triggered
\* flush, every metric submitted was acknowledged with True, whether the
\* anomaly handling raised or the flush failed.
C16_IngestionIsAcknowledged ==
    [][/\ \A is_anomaly \in BOOLEAN :
             CollectMetric(OneSeries, is_anomaly) =>
                 batch_buffer' = Append(batch_buffer, submitted'.metrics)
       /\ submitted'.rejected = 0
       /\ flush'["collect_metric"].pc = "idle" =>
             submitted'.acknowledged = submitted'.metrics
      ]_vars

\* C16 witness: two metrics were acknowledged although the size-triggered
\* flush of the second one failed (no other flush has run: the periodic task
\* logged no error, stop() was not called, no error was submitted) and both
\* are still buffered.
C16_Witness ==
    /\ submitted.acknowledged = 2
    /\ flush_failures = 1
    /\ failed_cycle = "none"
    /\ stop_call = "idle"
    /\ submitted.errors = 0
    /\ flush["collect_metric"].pc = "idle"
    /\ batch_buffer = <<1, 2>>

\* C17 (as claimed): whenever no collect_metric or collect_error call is
\* suspended in its flush, each buffer holds fewer items than the batch size.
C17_BuffersStayBelowBatchSize ==
    (flush["collect_metric"].pc = "idle" /\ flush["collect_error"].pc = "idle") =>
        /\ Len(batch_buffer) < max_batch_size
        /\ Len(error_buffer) < max_batch_size

\* C18 (as claimed): when a periodic cycle ends, every item the buffers held
\* when it began has been handed to executemany and none of them is still
\* buffered.
C18_TimerFlushesEveryCycle ==
    [][(flush_task = "flushing" /\ flush_task' = "sleep") =>
          /\ cycle_items.metrics \subseteq passed'.metrics
          /\ cycle_items.errors \subseteq passed'.errors
          /\ cycle_items.metrics \cap Range(batch_buffer') = {}
          /\ cycle_items.errors \cap Range(error_buffer') = {}
      ]_vars

(***************************************************************************)
(* Claims on the anomaly detector (SpecDetector, SpecRamp, SpecConstant).  *)
(***************************************************************************)
\* The sample of the detect_anomaly call that has just returned.
LastSample == anomaly_detector'.metric_history[Len(anomaly_detector'.metric_history)]

DetectReturns == anomaly_detector'.samples = anomaly_detector.samples + 1

\* C15: detect_anomaly always returns a boolean, never an exception, and it
\* returns false whenever the statistical tier raised (caught by detect_anomaly)
\* or the forest's fit raised (caught by _ml_anomaly).
C15_DetectNeverRaises ==
    [][DetectReturns =>
          LET r == Detection(anomaly_detector, LastSample, 1) IN
          /\ anomaly_detector'.result \in {"True", "False"}
          /\ (r.outer_except \/ r.inner_except) => anomaly_detector'.result = "False"
      ]_vars

\* C15 witness, statistical tier: the 50th sample of a series that began with
\* inf; statistics.mean raised on the window and the call returned false.
C15_Witness ==
    /\ anomaly_detector.samples = RecentWindow
    /\ anomaly_detector.metric_history[1] = Infinity
    /\ anomaly_detector.result = "False"

\* Model tier: the 51st sample; inf has left the window but not the training
\* data, fit raised, no forest was stored and the call returned false.
C15_WitnessForest ==
    /\ anomaly_detector.samples = ForestMinHistory + 1
    /\ anomaly_detector.metric_history[1] = Infinity
    /\ ~anomaly_detector.isolation_forests.trained
    /\ anomaly_detector.result = "False"

\* The value of the k-th sample of the rising series: k - 1, or inf for the
\* first.
ArrivedAs(k, value) == IF k = 1 THEN value \in {0, Infinity} ELSE value = k - 1

\* C19: after n detect_anomaly calls on one series the history holds exactly
\* the most recent min(n, 1000) samples, each once and in arrival order: it
\* never exceeds 1000 values, every call appends its value (also a call whose
\* statistical or model tier failed), and a full history drops its oldest.
C19_HistoryIsTheLastThousand ==
    LET history == anomaly_detector.metric_history
        n == anomaly_detector.samples
    IN  /\ Len(history) <= 1000
        /\ Len(history) = (IF n < 1000 THEN n ELSE 1000)
        /\ \A i \in 1..Len(history) : ArrivedAs(n - Len(history) + i, history[i])

\* C19 witness: 1002 samples arrived; the history holds the last 1000, the two
\* oldest were dropped.
C19_Witness ==
    /\ anomaly_detector.samples = 1002
    /\ Len(anomaly_detector.metric_history) = 1000
    /\ anomaly_detector.metric_history[1] = 2
    /\ anomaly_detector.metric_history[1000] = 1001

SpikeDetected == DetectReturns /\ LastSample = SpikeValue

\* C21: a sample ten times the mean that follows at least 50 stable samples
\* is reported anomalous by the very call that submits it.
C21_SpikeAfterFiftyIsAnomalous ==
    [][(SpikeDetected /\ anomaly_detector.samples >= 50) =>
          anomaly_detector'.result = "True"]_vars

\* C21 witness: 50 samples alternating 9 and 11, then 100, reported anomalous.
C21_Witness ==
    /\ anomaly_detector.samples = 51
    /\ anomaly_detector.metric_history[1] = 9
    /\ anomaly_detector.metric_history[2] = 11
    /\ anomaly_detector.metric_history[51] = SpikeValue
    /\ anomaly_detector.result = "True"

\* C22 (as claimed): once the history, counting the current sample, has 10
\* values, a sample far from the stable values before it is reported
\* anomalous; in particular as the 10th sample after 9 stable ones.
C22_SpikeFromTenthIsAnomalous ==
    [][(SpikeDetected /\ anomaly_detector.samples >= 9) =>
          anomaly_detector'.result = "True"]_vars

\* The submission numbers of the metrics submitted for a series, in order.
SubmittedFor(sample) ==
    SelectSeq([i \in 1..Len(submitted.series) |-> i],
              LAMBDA i : submitted.series[i] = sample)

TicketCreated == result' = "created"

\* The ticket a create_ticket_from_error call has just returned: the one
\* stored last or, when the store did not grow, the one it replaced.
CreatedTicket ==
    IF Len(tickets') > Len(tickets)
    THEN tickets'[Len(tickets')]
    ELSE tickets'[CHOOSE i \in 1..Len(tickets') :
                     \A j \in 1..Len(tickets') : j # i => tickets'[j] = tickets[j]]

ClaimedSlaHours(ticket) ==
    IF ticket.severity = "critical" THEN 2
    ELSE IF ticket.priority = "high" THEN 8
    ELSE IF ticket.priority = "medium" THEN 24
    ELSE 72

\* C24 (as claimed): the sla_deadline of every created ticket is its
\* created_at plus 2 hours for severity critical, else 8 for priority high,
\* else 24 for priority medium, else 72.
C24_DeadlineIsCreationPlusSla ==
    \A i \in 1..Len(tickets) :
        tickets[i].sla_deadline =
            tickets[i].created_at + ClaimedSlaHours(tickets[i]) * 3600

ClaimedPriority(severity, category) ==
    IF severity = "critical"
       \/ category \in {"rate_limit", "authentication", "service_unavailable"}
    THEN "high"
    ELSE IF severity = "high" \/ category \in {"timeout", "validation", "quota_exceeded"}
    THEN "medium"
    ELSE "low"

\* C25 (as claimed): for every (severity, category) pair the call gives a
\* ticket, whose priority is high, medium or low by the claimed rule and
\* never critical.
C25_PriorityFollowsTheRule ==
    [][/\ result' # "ValidationError"
       /\ TicketCreated =>
             /\ CreatedTicket.priority =
                    ClaimedPriority(Lower(CreatedTicket.original_error.severity),
                                    Lower(CreatedTicket.original_error.category))
             /\ CreatedTicket.priority # "critical"
      ]_vars

\* C26 (as claimed): a created ticket is stored under an id no other stored
\* ticket has, and every ticket stored before is still there unchanged: each
\* successful creation makes the store one ticket larger.
C26_CreatedTicketsAreKept ==
    [][TicketCreated =>
          /\ Len(tickets') = Len(tickets) + 1
          /\ SubSeq(tickets', 1, Len(tickets)) = tickets
          /\ tickets'[Len(tickets')].id \notin StoredIds
      ]_vars

ClaimedCategory(category) ==
    CASE category \in {"rate_limit", "timeout", "latency"} -> "performance"
      [] category = "quota_exceeded" -> "cost"
      [] category \in {"authentication", "authorization"} -> "security"
      [] category = "validation" -> "data_quality"
      [] category = "service_unavailable" -> "infrastructure"
      [] OTHER -> "general"

\* C27 (as claimed): for every error category the call returns a stored
\* ticket, whose category is the one the table gives.
C27_CategoryFollowsTheTable ==
    [][/\ TicketCreated =>
             CreatedTicket.category =
                 ClaimedCategory(Lower(CreatedTicket.original_error.category))
       /\ result' # "ValidationError"
      ]_vars

(***************************************************************************)
(* Claims on status updates (SpecLifecycle, SpecWorkflow).                 *)
(***************************************************************************)
\* C28: update_ticket_status with an id that is not in the store ends in the
\* not-found outcome (None), which is neither the success nor the
\* invalid-transition outcome, and leaves every ticket and every workflow log
\* as they were; no other request ends in it.
C28_UnknownTicketIsNotFound ==
    [][\A ticket_id \in TicketIds, new_status \in TicketStatus,
          user_id \in Users, notes \in Notes :
          UpdateTicketStatus(ticket_id, new_status, user_id, notes) =>
              IF ticket_id \in StoredIds
              THEN result' \in {"ok", "ValueError"}
              ELSE /\ result' = "not_found"
                   /\ tickets' = tickets
                   /\ ticket_workflows' = ticket_workflows
      ]_vars

\* C28 witness: a request named an unknown id while the store held two
\* tickets, one of them with an event in its log.
C28_Witness ==
    /\ result = "not_found"
    /\ Len(tickets) = 2
    /\ \E i \in 1..Len(tickets) : Len(ticket_workflows[tickets[i].id]) = 1

\* The status-specific fields of a ticket fit its status.
StatusEffectsHold(ticket) ==
    /\ ticket.status = "in_progress" => ticket.assignee_id # "None"
    /\ ticket.status = "resolved" => ticket.resolved_at # NoneTime
    /\ ticket.status = "closed" => ticket.closed_at # NoneTime

\* C29: in every state a ticket in progress has an assignee, a resolved
\* ticket has resolved_at and a closed ticket has closed_at; a step that
\* moves a ticket to in_progress gives it the acting user when it had no
\* assignee, and no step changes an assignee once there is one.
C29_StatusEffectsAreInvariant ==
    [][\A i \in 1..Len(tickets') :
          /\ StatusEffectsHold(tickets'[i])
          /\ i <= Len(tickets) =>
                /\ tickets[i].assignee_id # "None" =>
                      tickets'[i].assignee_id = tickets[i].assignee_id
                /\ (tickets[i].assignee_id = "None"
                       /\ tickets[i].status # "in_progress"
                       /\ tickets'[i].status = "in_progress") =>
                      tickets'[i].assignee_id \in Users
      ]_vars

\* C29 witness: two tickets in progress, one still with the assignee it was
\* stored with, the other assigned to the user who started the work.
C29_Witness ==
    /\ Len(tickets) = 2
    /\ \A i \in 1..2 : tickets[i].status = "in_progress"
    /\ \E i \in 1..2 : tickets[i].assignee_id = "on_call_engineer"
    /\ \E i \in 1..2 : tickets[i].assignee_id \in Users

\* How many events a step owes to a ticket's log: one for a status
\* transition, one for an escalation.
EventsOwed(i) ==
    (IF tickets'[i].status # tickets[i].status THEN 1 ELSE 0)
    + (IF tickets'[i].escalated /\ ~tickets[i].escalated THEN 1 ELSE 0)

C31_UpdatesAreSerialized ==
    [][\A i \in 1..Len(tickets) :
          tickets'[i].status # tickets[i].status =>
              LET before == ticket_workflows[tickets[i].id]
                  after == ticket_workflows'[tickets[i].id]
              IN  /\ <<tickets[i].status, tickets'[i].status>> \in LegalTransitions
                  /\ Len(after) = Len(before) + 1
                  /\ SubSeq(after, 1, Len(before)) = before
                  /\ after[Len(after)].old_status = tickets[i].status
                  /\ after[Len(after)].new_status = tickets'[i].status
                  /\ \A j \in 1..Len(tickets) :
                        j # i =>
                            /\ tickets'[j] = tickets[j]
                            /\ ticket_workflows'[tickets[j].id] =
                                   ticket_workflows[tickets[j].id]
      ]_vars

\* C31 witness: two calls on the second ticket were accepted one after the
\* other (open -> in_progress -> resolved) while the first ticket and its log
\* stayed as stored.
C31_Witness ==
    /\ Len(tickets) = 2
    /\ tickets[1].status = "open"
    /\ ticket_workflows[tickets[1].id] = <<>>
    /\ tickets[2].status = "resolved"
    /\ Len(ticket_workflows[tickets[2].id]) = 2
    /\ ticket_workflows[tickets[2].id][1].new_status = "in_progress"
    /\ ticket_workflows[tickets[2].id][2].old_status = "in_progress"

(***************************************************************************)
(* Claims on metric validation (SpecSubmit).                               *)
(***************************************************************************)
\* The value of the metric with a submission number.
ValueOf(metric) == submitted.series[metric].value

\* C32: no metric in the buffer and no entry of a detector history has a
\* negative value.
C32_NoNegativeValueInTheCore ==
    /\ \A metric \in Range(batch_buffer) : ValueOf(metric) >= 0
    /\ \A key \in DOMAIN metric_history :
          \A metric \in Range(metric_history[key]) : ValueOf(metric) >= 0

\* C32 witness: a negative metric was refused at construction, a metric of
\* value 0 was accepted after it and is in the buffer and in a history.
C32_Witness ==
    /\ submitted.invalid = 1
    /\ batch_buffer = <<1>>
    /\ ValueOf(1) = 0
    /\ \E key \in DOMAIN metric_history : metric_history[key] = <<1>>

(***************************************************************************)
(* Claims on the two tiers of the detector (SpecSpike, SpecRamp).          *)
(***************************************************************************)
\* The statistical tier raised on the sample of the call that has just
\* returned, or flagged it.
StatisticsRaised ==
    /\ Len(anomaly_detector'.metric_history) >= MinHistory
    /\ StatisticsRaise(Recent(anomaly_detector'.metric_history))

StatisticallyFlagged ==
    /\ ~StatisticsRaised
    /\ StatisticalAnomaly(anomaly_detector'.metric_history, LastSample)

C33_WitnessNoForest ==
    /\ anomaly_detector.samples = 52
    /\ anomaly_detector.metric_history[1] = Infinity
    /\ ~anomaly_detector.isolation_forests.trained
    /\ anomaly_detector.result = "False"

\* The forest the series has was fitted by the call before this one: on the
\* history of that call without its newest sample.
FittedByPreviousSample ==
    /\ anomaly_detector.isolation_forests.trained
    /\ anomaly_detector.isolation_forests.X =
           Range(Front(anomaly_detector.metric_history))

\* C34: once a series has a forest, it is refitted at most once per 100
\* consecutive samples, whatever the length of the stream: a forest fitted by
\* one sample is not fitted again by the sample after it.
C34_RetrainedOncePerHundred ==
    [][(DetectReturns /\ FittedByPreviousSample) =>
          anomaly_detector'.isolation_forests = anomaly_detector.isolation_forests
      ]_vars

\* Every fit uses the history without the newest sample.
C34_TrainedWithoutNewest ==
    [][(DetectReturns
          /\ anomaly_detector'.isolation_forests # anomaly_detector.isolation_forests) =>
          anomaly_detector'.isolation_forests =
              [trained |-> TRUE, X |-> Range(Front(anomaly_detector'.metric_history))]
      ]_vars

\* The forest is fitted at the 1000th sample and again at the 1001st.
C34_RetrainedTwiceRunning ==
    /\ anomaly_detector.samples = 1001
    /\ Len(anomaly_detector.metric_history) = HistoryMaxLen
    /\ anomaly_detector.isolation_forests =
           [trained |-> TRUE, X |-> Range(Front(anomaly_detector.metric_history))]

(***************************************************************************)
(* Claims on application shutdown (SpecLoops).                             *)
(***************************************************************************)
\* C35: the shutdown of the application ends the escalation check loop: once
\* shutdown is complete no escalation scan runs and the loop changes no
\* ticket.
C35_NoScanAfterShutdown ==
    [][(ShutdownComplete /\ escalation_task = "check") =>
          /\ escalation_task' = "check"
          /\ tickets' = tickets
      ]_vars

\* Shutdown is complete and a ticket carries an escalation stamped after the
\* critical threshold, while the loop sleeps towards its next scan.
C35_ScanAfterShutdown ==
    /\ ShutdownComplete
    /\ escalation_task = "sleep"
    /\ Len(tickets) = 1
    /\ tickets[1].escalated

(***************************************************************************)
(* Claims on tickets created from errors and then worked on (SpecIncident). *)
(***************************************************************************)
\* C36: a ticket created by create_ticket_from_error and driven by
\* update_ticket_status and check_escalations is open, in_progress, resolved
\* or closed in every state, never pending or reopened, and an accepted
\* update of a closed ticket leaves it open.
C36_FourStatusesOnly ==
    [][\A i \in 1..Len(tickets') :
          /\ tickets'[i].status \in {"open", "in_progress", "resolved", "closed"}
          /\ (i <= Len(tickets) /\ tickets[i].status = "closed"
                 /\ tickets'[i].status # "closed") =>
                tickets'[i].status = "open"
      ]_vars

\* C36 witness: a created ticket was closed and then reopened by an update:
\* it is open.
C36_Witness ==
    /\ Len(tickets) = 1
    /\ tickets[1].status = "open"
    /\ result = "ok"
    /\ Len(ticket_workflows[tickets[1].id]) = 2
    /\ ticket_workflows[tickets[1].id][1].new_status = "closed"
    /\ ticket_workflows[tickets[1].id][2].old_status = "closed"
    /\ ticket_workflows[tickets[1].id][2].new_status = "open"

Injective(rows) ==
    \A i, j \in 1..Len(rows) : rows[i] = rows[j] => i = j

\* C38: every accepted metric and every accepted error is written to storage
\* at most once, whatever the interleaving of the periodic flush, the
\* size-triggered flushes and the final flush of stop().
C38_WrittenAtMostOnce ==
    /\ Injective(ai_metrics)
    /\ Injective(ai_errors)

\* With no storage failure and no stop(), one metric has been written twice
\* by two flushes that overlapped.
C38_WrittenTwiceByOverlap ==
    /\ flush_failures = 0
    /\ stop_call = "idle"
    /\ ~Injective(ai_metrics)

\* C39: while storage writes succeed, every metric collect_metric has
\* acknowledged is eventually written to storage, whenever the call was made:
\* before start(), while the collector runs, during stop() or after stop()
\* has returned.
C39_AcceptedIsEventuallyWritten ==
    \A metric \in 1..(MaxMetrics + 1) :
        (metric <= submitted.acknowledged /\ flush_failures = 0)
            ~> (metric \in Range(ai_metrics) \/ flush_failures > 0)

\* stop() has returned, no flush is under way, no write has failed, and an
\* acknowledged metric sits in the buffer, written nowhere.
C39_StrandedAfterStop ==
    /\ stop_call = "returned"
    /\ flush_task \in {"None", "done"}
    /\ \A c \in Flushers : flush[c] = Idle
    /\ flush_failures = 0
    /\ submitted.acknowledged = submitted.metrics
    /\ batch_buffer # <<>>
    /\ \A metric \in Range(batch_buffer) : metric \notin Range(ai_metrics)

(***************************************************************************)
(* Claims on the closure stamps (SpecIncident).                            *)
(***************************************************************************)
\* C40: the closure stamps follow the status in every state: closed_at is
\* set only on a closed ticket and resolved_at only on a resolved or closed
\* one, so a reopened ticket carries neither.
C40_StampsTrackStatus ==
    \A i \in 1..Len(tickets) :
        /\ tickets[i].closed_at # NoneTime => tickets[i].status = "closed"
        /\ tickets[i].resolved_at # NoneTime =>
               tickets[i].status \in {"resolved", "closed"}

\* A ticket was resolved, then reopened: it is open and still carries the
\* resolved_at of the first event.
C40_StaleStampOnOpenTicket ==
    \E i \in 1..Len(tickets) :
        LET events == ticket_workflows[tickets[i].id] IN
        /\ tickets[i].status = "open"
        /\ Len(events) = 2
        /\ events[1].new_status = "resolved"
        /\ events[2].new_status = "open"
        /\ tickets[i].resolved_at = events[1].timestamp

====
